---- MODULE Spec2Model ----
(***************************************************************************)
(* Model of xontrib/fzf_widgets.py: five keybinding actions that launch    *)
(* the fzf finder as a child process and put its output in the prompt's    *)
(* edit buffer.  Text is modelled as sequences of one-character strings so *)
(* that strip(), splitlines(), rfind() and os.path.join() are computed.   *)
(* The two streaming actions (history, dir-history) are modelled step by   *)
(* step together with the child and the two pipes between them; the        *)
(* command-mode actions (file, dir, ssh) use the blocking subprocess.run   *)
(* and are one step each.                                                  *)
(***************************************************************************)
EXTENDS Integers, Sequences, FiniteSets

VARIABLES
    tmux,        \* "TMUX" in XSH.env
    onPath,      \* the names `which` resolves on the search path
    environ,     \* os.environ of the shell process
    cwd,         \* os.getcwd() of the shell process, as path components
    text,        \* event.current_buffer.text
    cursor,      \* event.current_buffer.cursor_position
    pc,          \* position of the running handler
    action,      \* the keybinding action that is running or ran last
    invocations, \* key presses handled so far
    entryBuf,    \* buffer text and cursor when the handler was entered
    entryCwd,    \* working directory when the handler was entered
    changedDir,  \* the handler executed os.chdir(expanded_path)
    binaryName,  \* value returned by get_fzf_binary_name() in this invocation
    hist,        \* local `hist`: [present, items]
    read,        \* local `read` of fzf_insert_dir_history
    proc,        \* the Popen handle held by the handler
    child,       \* the fzf process
    stdinPipe,   \* chunks written to the child's input and not yet consumed
    written,     \* every character written to the child's input so far
    closes,      \* calls of proc.stdin.close() in this invocation
    stdoutPipe,  \* characters the child wrote and the handler has not read
    captured,    \* the child's output as read by the handler
    erased       \* calls of event.cli.renderer.erase() in this invocation

vars == <<tmux, onPath, environ, cwd, text, cursor, pc, action, invocations,
          entryBuf, entryCwd, changedDir, binaryName, hist, read, proc, child,
          stdinPipe, written, closes, stdoutPipe, captured, erased>>

config == <<tmux, onPath>>
frame == <<entryBuf, entryCwd, changedDir, binaryName, hist, read>>
channel == <<stdinPipe, written, closes, stdoutPipe>>

(* ------------------------------ bounds -------------------------------- *)

\* Key presses handled in one run.
MaxInvocations == 1
\* Entries of the shell history.
MaxHist == 2
\* Capacity of the pipe to the child's input, in written chunks.
StdinCap == 1
\* Capacity of the pipe from the child's output, in characters.
PipeCap == 3

(* ------------------------------- text --------------------------------- *)

NUL == "NUL"
NL == "\n"
Whitespace == {" ", NL, "\t"}
Unset == "<unset>"

Min(a, b) == IF a < b THEN a ELSE b

RECURSIVE LStrip(_)
LStrip(s) == IF s # <<>> /\ Head(s) \in Whitespace THEN LStrip(Tail(s)) ELSE s

RECURSIVE RStrip(_)
RStrip(s) ==
    IF s # <<>> /\ s[Len(s)] \in Whitespace THEN RStrip(SubSeq(s, 1, Len(s) - 1)) ELSE s

\* str.strip()
Strip(s) == RStrip(LStrip(s))

\* str.rfind(c, 0, len(s)) as a 0-based index, -1 when absent
RECURSIVE RFind(_, _)
RFind(s, c) ==
    IF s = <<>> THEN -1
    ELSE IF s[Len(s)] = c THEN Len(s) - 1
    ELSE RFind(SubSeq(s, 1, Len(s) - 1), c)

\* str.splitlines(): the lines without their terminators, no empty last line
RECURSIVE SplitLines(_)
SplitLines(s) ==
    IF s = <<>> THEN <<>>
    ELSE LET p == CHOOSE i \in 1..(Len(s) + 1) :
                      /\ (i = Len(s) + 1 \/ s[i] = NL)
                      /\ \A j \in 1..(i - 1) : s[j] # NL
         IN <<SubSeq(s, 1, p - 1)>> \o SplitLines(SubSeq(s, p + 1, Len(s)))

IsPrefix(p, s) == Len(p) <= Len(s) /\ SubSeq(s, 1, Len(p)) = p

(* ------------------------- binary resolution -------------------------- *)

\* _run("which", name): the captured output, empty when nothing resolves.
Which(name) == IF name \in onPath THEN <<"usr", "bin", name>> ELSE <<>>

\* The name handed to `which` by the check in get_fzf_binary_name: the
\* string literal "fzf_tmux_cmd", not the value of the variable fzf_tmux_cmd.
TmuxProbeName == "fzf_tmux_cmd"

get_fzf_binary_name ==
    IF tmux /\ Which(TmuxProbeName) # <<>> THEN "fzf-tmux" ELSE "fzf"

\* get_fzf_binary_path raises exactly when this is empty.
get_fzf_binary_path == Which(get_fzf_binary_name)

\* Installations: no finder; fzf alone; fzf with its tmux wrapper; and those with
\* an executable that is named like the probed literal.
SearchPaths ==
    { {}, {"fzf"}, {"fzf", "fzf-tmux"}, {"fzf", "fzf-tmux", "fzf_tmux_cmd"} }

(* ------------------------------ history ------------------------------- *)

\* History entries: the command line ("inp") and the directory it ran in
\* ("cwd", empty when the entry records none).  XSH.history is read entry by
\* entry while a handler iterates it; `hist.items` holds the entries read.
HistEntries ==
    { [inp |-> <<"l", "s">>, cwd |-> <<"/", "a">>],
      [inp |-> <<"c", "d", " ", "/", "b", "b">>, cwd |-> <<"/", "b", "b">>],
      [inp |-> <<" ", "x">>, cwd |-> <<>>] }

NoHist == [present |-> FALSE, items |-> <<>>]

\* The condition without its membership test: every set directory is written.
DirIsSet(c, seen) == c # <<>>

\* The condition of the loop body of fzf_insert_dir_history: `cwd and (cwd not in read)`.
DirIsNew(c, seen) == c # <<>> /\ c \notin seen

\* str(cwd) + "\0"
Chunk(rec) == rec \o <<NUL>>

\* What fzf --read0 makes of one chunk: the record before the delimiter.
Record(chunk) == SubSeq(chunk, 1, Len(chunk) - 1)

(* ------------------------- process and pipes -------------------------- *)

NoProc == [spawned |-> FALSE, binary |-> <<>>, query |-> <<>>, env |-> environ,
           stdinOpen |-> FALSE, stdoutOpen |-> FALSE, reaped |-> FALSE]

NoChild == [state |-> "none", items |-> <<>>, picked |-> FALSE, selection |-> <<>>,
            outPending |-> <<>>, exitCode |-> 0]

\* popen_args of get_fzf_proc: "-q ^<text>" is appended when the buffer is not empty.
QueryArg(t) == IF Len(t) > 0 THEN <<"-q ^">> \o t ELSE <<>>

\* subprocess.Popen(popen_args, stdin=PIPE, stdout=PIPE): the child inherits os.environ.
Popen(path) == [spawned |-> TRUE, binary |-> path, query |-> QueryArg(text),
                env |-> environ, stdinOpen |-> TRUE, stdoutOpen |-> TRUE,
                reaped |-> FALSE]

\* The output as read, not stripped.
ReadChoiceRaw(out) == out

\* proc.stdout.read().strip()
ReadChoice(out) == Strip(out)

\* The assignments without the `if choice:` around them.
SetBufferAlways(choice, buf) == [text |-> choice, cursor |-> Len(choice)]

\* The end of close_fzf_proc: `if choice:` sets the text and moves the cursor.
SetBuffer(choice, buf) ==
    IF choice # <<>> THEN [text |-> choice, cursor |-> Len(choice)] ELSE buf

Buf == [text |-> text, cursor |-> cursor]

(* ------------------------------- Init --------------------------------- *)

InitialEnviron == [FZF_DEFAULT_COMMAND |-> Unset, FZF_DEFAULT_OPTS |-> Unset]

InitialCwd == <<"home">>

InitialBuffers ==
    { [text |-> <<>>, cursor |-> 0],
      [text |-> <<"c", "a", "t", " ", "f", "o">>, cursor |-> 6],
      [text |-> <<"c", "a", "t", " ", "f">>, cursor |-> 5] }

Init ==
    /\ tmux \in BOOLEAN
    /\ onPath \in SearchPaths
    /\ environ = InitialEnviron
    /\ cwd = InitialCwd
    /\ \E b \in InitialBuffers : text = b.text /\ cursor = b.cursor
    /\ pc = "idle"
    /\ action = "none"
    /\ invocations = 0
    /\ entryBuf = [text |-> text, cursor |-> cursor]
    /\ entryCwd = cwd
    /\ changedDir = FALSE
    /\ binaryName = "none"
    /\ hist = NoHist
    /\ read = {}
    /\ proc = NoProc
    /\ child = NoChild
    /\ stdinPipe = <<>>
    /\ written = <<>>
    /\ closes = 0
    /\ stdoutPipe = <<>>
    /\ captured = <<>>
    /\ erased = 0

(* --------------------------- handler entry ---------------------------- *)

\* prompt_toolkit calls a handler when its key is pressed and no handler runs.
CanPress == pc \in {"idle", "done", "raised"} /\ invocations < MaxInvocations

\* A handler starts with fresh locals, no child and no pipes of its own.
Enter(name) ==
    /\ CanPress
    /\ action' = name
    /\ invocations' = invocations + 1
    /\ entryBuf' = Buf
    /\ entryCwd' = cwd
    /\ closes' = 0
    /\ written' = <<>>
    /\ stdinPipe' = <<>>
    /\ stdoutPipe' = <<>>
    /\ read' = {}

\* get_fzf_proc, first step of both streaming actions: resolve the binary
\* (raising when `which` prints nothing), then spawn it with two pipes.
get_fzf_proc ==
    /\ binaryName' = get_fzf_binary_name
    /\ captured' = <<>>
    /\ erased' = 0
    /\ changedDir' = FALSE
    /\ IF get_fzf_binary_path = <<>>
       THEN /\ pc' = "raised"
            /\ proc' = NoProc
            /\ child' = NoChild
       ELSE /\ pc' = "feed"
            /\ proc' = Popen(get_fzf_binary_path)
            /\ child' = [NoChild EXCEPT !.state = "running"]

\* fzf_history -> fzf_insert_history, up to the call of history_main.
FzfHistoryStart ==
    /\ Enter("history")
    /\ hist' = [present |-> TRUE, items |-> <<>>]
    /\ get_fzf_proc
    /\ UNCHANGED <<config, environ, cwd, text, cursor>>

\* fzf_dir_history -> fzf_insert_dir_history, up to the loop; returns at once
\* when XSH.history is None.
FzfDirHistoryStart ==
    /\ Enter("dir_history")
    /\ \E present \in BOOLEAN : hist' = [present |-> present, items |-> <<>>]
    /\ IF hist'.present
       THEN get_fzf_proc
       ELSE /\ pc' = "done"
            /\ captured' = <<>>
            /\ erased' = 0
            /\ binaryName' = "none"
            /\ changedDir' = FALSE
            /\ proc' = NoProc
            /\ child' = NoChild
    /\ UNCHANGED <<config, environ, cwd, text, cursor>>

(* ------------------------- streaming: handler ------------------------- *)

\* The producer has another entry to write: the history is disclosed entry by
\* entry as it is iterated, up to MaxHist entries.
Feeding(name) == pc = "feed" /\ action = name /\ Len(hist.items) < MaxHist

\* proc.stdin.write(chunk).  The write blocks while the pipe is full; once the
\* child has exited nobody holds the read end and the write raises
\* BrokenPipeError, which leaves the handler at once (with the text layer's
\* buffer between, the same error leaves it from a later write or from
\* proc.stdin.close(), before proc.wait() in every case).
WriteStdin(chunk) ==
    IF child.state = "exited"
    THEN /\ pc' = "raised"
         /\ UNCHANGED <<stdinPipe, written>>
    ELSE /\ Len(stdinPipe) < StdinCap
         /\ stdinPipe' = Append(stdinPipe, chunk)
         /\ written' = written \o chunk
         /\ pc' = pc

\* history_main(args=["show", "-0", "all"], stdout=proc.stdin): one NUL-terminated
\* record per history entry, oldest first.
HistoryMainWrite ==
    /\ Feeding("history")
    /\ \E e \in HistEntries :
          /\ hist' = [hist EXCEPT !.items = Append(@, e)]
          /\ WriteStdin(Chunk(e.inp))
    /\ UNCHANGED <<config, environ, cwd, text, cursor, action, invocations,
                   entryBuf, entryCwd, changedDir, binaryName, read,
                   proc, child, closes, stdoutPipe, captured, erased>>

\* One iteration of `for entry in hist.all_items()` that writes
\* (the entry's cwd is set and was not seen before).
DirHistoryWrite ==
    /\ Feeding("dir_history")
    /\ \E e \in HistEntries :
          /\ DirIsNew(e.cwd, read)
          /\ hist' = [hist EXCEPT !.items = Append(@, e)]
          /\ read' = read \cup {e.cwd}
          /\ WriteStdin(Chunk(e.cwd))
    /\ UNCHANGED <<config, environ, cwd, text, cursor, action, invocations,
                   entryBuf, entryCwd, changedDir, binaryName,
                   proc, child, closes, stdoutPipe, captured, erased>>

\* One iteration of the loop that writes nothing.
DirHistorySkip ==
    /\ Feeding("dir_history")
    /\ \E e \in HistEntries :
          /\ ~DirIsNew(e.cwd, read)
          /\ hist' = [hist EXCEPT !.items = Append(@, e)]
    /\ UNCHANGED <<config, environ, cwd, text, cursor, pc, action, invocations,
                   entryBuf, entryCwd, changedDir, binaryName, read,
                   proc, child, channel, captured, erased>>

\* close_fzf_proc, first statement: proc.stdin.close(), once the producer has
\* returned (the history has no further entry).
CloseStdin ==
    /\ pc = "feed"
    /\ proc' = [proc EXCEPT !.stdinOpen = FALSE]
    /\ closes' = closes + 1
    /\ pc' = "wait"
    /\ UNCHANGED <<config, environ, cwd, text, cursor, action, invocations, frame,
                   child, stdinPipe, written, stdoutPipe, captured, erased>>

\* close_fzf_proc, the rest: proc.wait() returns when the child has exited; then
\* the output is read to its end and stripped, the prompt is redrawn and a
\* non-empty choice replaces the buffer.  The handler then returns: the last
\* reference to proc goes and with it the read end of the output pipe.
WaitAndDeliver ==
    /\ pc = "wait"
    /\ child.state = "exited"
    /\ proc' = [proc EXCEPT !.reaped = TRUE, !.stdoutOpen = FALSE]
    /\ captured' = stdoutPipe
    /\ stdoutPipe' = <<>>
    /\ erased' = erased + 1
    /\ LET b == SetBuffer(ReadChoice(stdoutPipe), Buf)
       IN text' = b.text /\ cursor' = b.cursor
    /\ pc' = "done"
    /\ UNCHANGED <<config, environ, cwd, action, invocations, frame, child,
                   stdinPipe, written, closes>>

(* -------------------------- streaming: child -------------------------- *)

\* fzf reads one record from its input.
ChildRead ==
    /\ child.state = "running"
    /\ stdinPipe # <<>>
    /\ child' = [child EXCEPT !.items = Append(@, Record(Head(stdinPipe)))]
    /\ stdinPipe' = Tail(stdinPipe)
    /\ UNCHANGED <<config, environ, cwd, text, cursor, pc, action, invocations, frame,
                   proc, written, closes, stdoutPipe, captured, erased>>

\* The user accepts one of the records loaded so far (+m: one line will be
\* printed, exit code 0).
ChildAccept ==
    /\ child.state = "running"
    /\ \E i \in 1..Len(child.items) :
          child' = [child EXCEPT !.state = "chosen", !.picked = TRUE,
                                 !.selection = child.items[i],
                                 !.outPending = child.items[i] \o <<NL>>,
                                 !.exitCode = 0]
    /\ UNCHANGED <<config, environ, cwd, text, cursor, pc, action, invocations, frame,
                   proc, channel, captured, erased>>

\* The user leaves without a selection: nothing is printed and the child exits
\* (exit code 1 for "no match", 130 for an interrupt); what it had not read of
\* its input is dropped with the pipe.
ChildCancel ==
    /\ child.state = "running"
    /\ \E code \in {1, 130} :
          child' = [child EXCEPT !.state = "exited", !.exitCode = code]
    /\ stdinPipe' = <<>>
    /\ UNCHANGED <<config, environ, cwd, text, cursor, pc, action, invocations, frame,
                   proc, written, closes, stdoutPipe, captured, erased>>

\* The child writes its output, as much as the pipe takes, and exits when all
\* of it is written; with the pipe full it stays blocked in the write until the
\* other end is read.
ChildWrite ==
    /\ child.state = "chosen"
    /\ Len(stdoutPipe) < PipeCap
    /\ LET n == Min(PipeCap - Len(stdoutPipe), Len(child.outPending))
       IN /\ stdoutPipe' = stdoutPipe \o SubSeq(child.outPending, 1, n)
          /\ child' = [child EXCEPT
                         !.outPending = SubSeq(@, n + 1, Len(@)),
                         !.state = IF n = Len(child.outPending)
                                   THEN "exited" ELSE "chosen"]
          /\ stdinPipe' = IF n = Len(child.outPending) THEN <<>> ELSE stdinPipe
    /\ UNCHANGED <<config, environ, cwd, text, cursor, pc, action, invocations, frame,
                   proc, written, closes, captured, erased>>

(* --------------------------- file system ------------------------------ *)

\* What the working directory holds: the name as path completion returns it
\* (directories with a trailing slash) and, for a directory, its path component.
DirEntries(dir) ==
    IF dir = <<"home">>
    THEN { [path |-> <<"f", "o", "o", "/">>, comp |-> "foo"],
           [path |-> <<"f", "i", "g">>, comp |-> ""] }
    ELSE IF dir = <<"home", "foo">>
    THEN { [path |-> <<"b", "a", "r">>, comp |-> ""] }
    ELSE {}

\* os.path.normpath on a relative name: trailing slashes go.
RECURSIVE NormPath(_)
NormPath(p) ==
    IF Len(p) > 1 /\ p[Len(p)] = "/" THEN NormPath(SubSeq(p, 1, Len(p) - 1)) ELSE p

\* os.path.expanduser: a leading "~" becomes the home directory.
ExpandUser(p) ==
    IF p # <<>> /\ Head(p) = "~" THEN <<"/", "h", "o", "m", "e">> \o Tail(p) ELSE p

\* complete_path(normpath(prefix), ...)[0]: the entries of the working
\* directory that start with the prefix.
complete_path(prefix, dir) ==
    { e.path : e \in { x \in DirEntries(dir) : IsPrefix(NormPath(prefix), x.path) } }

\* os.path.isdir, relative to the working directory.
IsDir(p, dir) == \E e \in DirEntries(dir) : e.path = p /\ e.comp # ""

\* os.chdir(p) for a directory of the working directory.
Chdir(p, dir) ==
    Append(dir, (CHOOSE e \in DirEntries(dir) : e.path = p /\ e.comp # "").comp)

\* os.path.join(a, b)
PathJoin(a, b) ==
    IF b # <<>> /\ Head(b) = "/" THEN b
    ELSE IF a = <<>> \/ a[Len(a)] = "/" THEN a \o b
    ELSE a \o <<"/">> \o b

(* ------------------------------ buffer -------------------------------- *)

\* document.current_line_before_cursor
AfterLastNewline(s) ==
    IF RFind(s, NL) = -1 THEN s ELSE SubSeq(s, RFind(s, NL) + 2, Len(s))

CurrentLineBeforeCursor(b) == AfterLastNewline(SubSeq(b.text, 1, b.cursor))

\* The prefix computed at the top of fzf_insert_file: what follows the last
\* space before the cursor; empty (None) without a space or right after one.
PrefixOf(before) ==
    LET delim_pos == RFind(before, " ")
    IN IF delim_pos # -1 /\ delim_pos # Len(before) - 1
       THEN SubSeq(before, delim_pos + 2, Len(before))
       ELSE <<>>

\* current_buffer.delete_before_cursor(n)
DeleteBeforeCursor(b, n) ==
    LET k == Min(n, b.cursor)
    IN [text |-> SubSeq(b.text, 1, b.cursor - k) \o SubSeq(b.text, b.cursor + 1, Len(b.text)),
        cursor |-> b.cursor - k]

\* current_buffer.insert_text(t)
InsertText(b, t) ==
    [text |-> SubSeq(b.text, 1, b.cursor) \o t \o SubSeq(b.text, b.cursor + 1, Len(b.text)),
     cursor |-> b.cursor + Len(t)]

\* The loop that builds `command` from the chosen lines: each line stripped,
\* joined to `path` and quoted, with a space after it.
RECURSIVE QuoteAll(_, _)
QuoteAll(path, lines) ==
    IF lines = <<>> THEN <<>>
    ELSE <<"'">> \o PathJoin(path, Strip(Head(lines))) \o <<"'", " ">>
         \o QuoteAll(path, Tail(lines))

\* The end of fzf_insert_file: `if choice:` replaces the prefix (when a single
\* completion was found) by the quoted choices.
InsertChoice(choice, path, prefix, b) ==
    IF choice # <<>>
    THEN InsertText(IF path # <<>> THEN DeleteBeforeCursor(b, Len(prefix)) ELSE b,
                    Strip(QuoteAll(path, SplitLines(choice))))
    ELSE b

\* The end of fzf_ssh: `if choice:` inserts "ssh " + choice.
InsertSsh(choice, b) ==
    IF choice # <<>> THEN InsertText(b, <<"s", "s", "h", " ">> \o choice) ELSE b

(* ---------------------------- command mode ---------------------------- *)

\* Lines the user can mark in one run of fzf -m.
MaxSelected == 1

RECURSIVE Lines(_)
Lines(sel) == IF sel = <<>> THEN <<>> ELSE Head(sel) \o <<NL>> \o Lines(Tail(sel))

\* What fzf can print: up to MaxSelected different candidates, a line each.
Outputs(candidates) ==
    { Lines(sel) : sel \in { q \in UNION { [1..n -> candidates] : n \in 0..MaxSelected } :
                              \A i, j \in 1..Len(q) : i # j => q[i] # q[j] } }

\* The environment overrides of fzf_insert_file, written through `env`, which
\* is os.environ itself (`env = os.environ` makes no copy).
EnvAfter(env, x, dirs_only) ==
    LET cmd == IF dirs_only THEN x.fzf_find_dirs_command ELSE x.fzf_find_command
        e1 == IF cmd # Unset THEN [env EXCEPT !.FZF_DEFAULT_COMMAND = cmd] ELSE env
    IN IF x.FZF_DEFAULT_OPTS # Unset
       THEN [e1 EXCEPT !.FZF_DEFAULT_OPTS = x.FZF_DEFAULT_OPTS]
       ELSE e1

\* XSH.env as fzf_insert_file finds it: the three settings it looks up.
XshEnvs == [fzf_find_command : {Unset, "fd -t f"},
            fzf_find_dirs_command : {Unset, "fd -t d"},
            FZF_DEFAULT_OPTS : {Unset, "--ansi"}]

\* subprocess.run(...): the child is spawned, runs to its end with its output
\* collected by communicate(), is waited for and its pipe is closed.
RunProc(path, env) ==
    [spawned |-> TRUE, binary |-> path, query |-> <<>>, env |-> env,
     stdinOpen |-> FALSE, stdoutOpen |-> FALSE, reaped |-> TRUE]

RanChild(items, out) ==
    [state |-> "exited", items |-> items, picked |-> out # <<>>, selection |-> out,
     outPending |-> <<>>, exitCode |-> IF out # <<>> THEN 0 ELSE 130]

\* fzf_insert_file(event, dirs_only), the whole handler.  XSH.env is read at
\* this call (x); the finder lists the directory it runs in.
fzf_insert_file(name, dirs_only) ==
    /\ Enter(name)
    /\ \E x \in XshEnvs :
       LET before == CurrentLineBeforeCursor(Buf)
           prefix == PrefixOf(before)
           paths == IF prefix # <<>> THEN complete_path(prefix, cwd) ELSE {}
           path == IF Cardinality(paths) = 1 THEN CHOOSE q \in paths : TRUE ELSE <<>>
           enters == path # <<>> /\ IsDir(ExpandUser(path), cwd)
           there == IF enters THEN Chdir(ExpandUser(path), cwd) ELSE cwd
           env == EnvAfter(environ, x, dirs_only)
       IN /\ environ' = env
          /\ changedDir' = enters
          /\ binaryName' = get_fzf_binary_name
          /\ hist' = NoHist
          /\ IF get_fzf_binary_path = <<>>
             THEN /\ pc' = "raised"
                  /\ cwd' = there
                  /\ proc' = NoProc
                  /\ child' = NoChild
                  /\ captured' = <<>>
                  /\ erased' = 0
                  /\ UNCHANGED <<text, cursor>>
             ELSE \E out \in Outputs({ e.path : e \in DirEntries(there) }) :
                  /\ proc' = RunProc(get_fzf_binary_path, env)
                  /\ child' = RanChild(<<>>, out)
                  /\ captured' = out
                  /\ cwd' = cwd
                  /\ erased' = 1
                  /\ LET b == InsertChoice(Strip(out), path, prefix, Buf)
                     IN text' = b.text /\ cursor' = b.cursor
                  /\ pc' = "done"
    /\ UNCHANGED <<tmux, onPath>>

fzf_file == fzf_insert_file("file", FALSE)

fzf_dir == fzf_insert_file("dir", TRUE)

(* -------------------------------- ssh --------------------------------- *)

\* Lines of the ssh configuration files: a keyword and the rest of the line.
SshLines ==
    { [key |-> "Host", rest |-> <<"h", "1">>],
      [key |-> "host", rest |-> <<"h", "2">>],
      [key |-> "HostName", rest |-> <<"x">>] }

\* Lines of ~/.ssh/config and /etc/ssh/ssh_config together.
MaxSshLines == 1

SshConfigs == UNION { [1..n -> SshLines] : n \in 0..MaxSshLines }

\* re.IGNORECASE on the keyword
Lower(k) == IF k = "Host" THEN "host" ELSE IF k = "HostName" THEN "hostname" ELSE k

\* re.findall(r"Host\s(.*)\n?", text, re.IGNORECASE): the rest of every line
\* whose keyword is Host, in any case, followed by white space.
RECURSIVE FindHosts(_)
FindHosts(lines) ==
    IF lines = <<>> THEN <<>>
    ELSE (IF Lower(Head(lines).key) = "host" THEN <<Head(lines).rest>> ELSE <<>>)
         \o FindHosts(Tail(lines))

\* The candidates of fzf_prompt_from_string as a set.
Range(q) == { q[i] : i \in 1..Len(q) }

\* fzf_ssh, the whole handler: the hosts are read, fzf is run on them with
\* subprocess.run (+m: at most one line is printed), the prompt is redrawn
\* and a non-empty choice is inserted after "ssh ".
fzf_ssh ==
    /\ Enter("ssh")
    /\ \E cfg \in SshConfigs :
       LET hosts == FindHosts(cfg)
       IN /\ binaryName' = get_fzf_binary_name
          /\ changedDir' = FALSE
          /\ hist' = NoHist
          /\ IF get_fzf_binary_path = <<>>
             THEN /\ pc' = "raised"
                  /\ proc' = NoProc
                  /\ child' = NoChild
                  /\ captured' = <<>>
                  /\ erased' = 0
                  /\ UNCHANGED <<text, cursor>>
             ELSE \E out \in {<<>>} \cup { h \o <<NL>> : h \in Range(hosts) } :
                  /\ proc' = RunProc(get_fzf_binary_path, environ)
                  /\ child' = RanChild(hosts, out)
                  /\ captured' = out
                  /\ erased' = 1
                  /\ LET b == InsertSsh(Strip(out), Buf)
                     IN text' = b.text /\ cursor' = b.cursor
                  /\ pc' = "done"
    /\ UNCHANGED <<config, environ, cwd>>

Next ==
    \/ FzfHistoryStart
    \/ FzfDirHistoryStart
    \/ fzf_file
    \/ fzf_dir
    \/ fzf_ssh
    \/ HistoryMainWrite
    \/ DirHistoryWrite
    \/ DirHistorySkip
    \/ CloseStdin
    \/ WaitAndDeliver
    \/ ChildRead
    \/ ChildAccept
    \/ ChildCancel
    \/ ChildWrite

Spec == Init /\ [][Next]_vars

(* ------------------------------ claims -------------------------------- *)

Ended == pc \in {"done", "raised"}
Streaming == action \in {"history", "dir_history"}

\* C1: get_fzf_binary_name returns "fzf-tmux" exactly when TMUX is in the
\* environment and `which fzf-tmux` succeeds, and "fzf" otherwise.
C1_TmuxVariantIffResolvable ==
    binaryName # "none" =>
        /\ binaryName \in {"fzf", "fzf-tmux"}
        /\ (binaryName = "fzf-tmux") <=> (tmux /\ Which("fzf-tmux") # <<>>)

\* C2: the overrides of fzf_insert_file reach only the child's environment:
\* os.environ of the shell stays what it was before the first invocation.
C2_ParentEnvironUntouched == environ = InitialEnviron

\* C3: when fzf_insert_file changed into the matched directory, the working
\* directory is the original one again when the action is left, whether by a
\* choice, a cancellation or an exception.
C3_WorkingDirectoryRestored == (Ended /\ changedDir) => cwd = entryCwd

\* C4: no error raised inside a keybinding action leaves its handler.
C4_NoErrorLeavesHandler == pc # "raised"

\* C5: the redraw is issued exactly once after every child exit, on the
\* paths that end in a selection, a cancellation or an error, never twice.
C5_RedrawOncePerChildExit ==
    /\ erased <= 1
    /\ (Ended /\ child.state = "exited") => erased = 1

\* C6: when the child's captured output is empty after trimming, the buffer's
\* text and cursor after the action are those before it, in every action and
\* whatever the child's exit code.
C6_EmptyChoiceKeepsBuffer ==
    (pc = "done" /\ proc.spawned /\ Strip(captured) = <<>>) => Buf = entryBuf

C6_Witness ==
    /\ pc = "done"
    /\ action = "dir_history"
    /\ proc.spawned
    /\ Strip(captured) = <<>>
    /\ child.exitCode = 1
    /\ written # <<>>
    /\ text # <<>>

FirstOccurrences(items) ==
    { i \in 1..Len(items) :
        /\ items[i].cwd # <<>>
        /\ \A j \in 1..(i - 1) : items[j].cwd # items[i].cwd }

\* One NUL-terminated record per first occurrence, in the history's order.
RECURSIVE DirStreamFrom(_, _)
DirStreamFrom(items, i) ==
    IF i > Len(items) THEN <<>>
    ELSE (IF i \in FirstOccurrences(items) THEN items[i].cwd \o <<NUL>> ELSE <<>>)
         \o DirStreamFrom(items, i + 1)

C9_NoChildOrPipeOutlivesAction ==
    (Ended /\ Streaming /\ proc.spawned) =>
        /\ proc.reaped
        /\ ~proc.stdinOpen
        /\ ~proc.stdoutOpen

\* The handler is in proc.wait() and the child has not exited.
HandlerBlocked == pc = "wait" /\ child.state # "exited"

\* The child is in the write of its output and the pipe is full.
ChildBlocked == child.state = "chosen" /\ Len(stdoutPipe) >= PipeCap

\* C10: handler and child never block on each other, whatever the size of the
\* child's output relative to the capacity of the output pipe.
C10_NoMutualBlocking == ~(HandlerBlocked /\ ChildBlocked)

====
